---- MODULE Spec2Model ----
(***************************************************************************)
(* Job lifecycle of the HyPhy MCP server (python-mcp-server/src/server.py; *)
(* hyphy-mcp/server.py carries the same code one line further down).       *)
(*                                                                         *)
(* The registry datamonkey_state["jobs"] is written by the submitting call *)
(* run_hyphy_method_async and by one background thread per record,         *)
(* run_hyphy_method_async_worker.  Tool calls run one at a time; worker    *)
(* threads interleave with them and with each other at every dictionary    *)
(* store and every network request, so the worker is modelled one store /  *)
(* one request per step.  RaceSpec takes the submitting call one statement *)
(* at a time as well, for submissions made from different threads.  The    *)
(* remote Datamonkey service is the environment: each request draws its    *)
(* outcome from a small set.                                               *)
(***************************************************************************)
EXTENDS Integers, Sequences, FiniteSets, TLC

\* ------------------------------------------------------------------ bounds
MaxJobs == 2          \* submissions accepted in one run (size of the uuid pool)

\* ------------------------------------------------------------ value spaces
None == <<>>                      \* Python None
Some(x) == <<x>>                  \* a non-None value
JobIds == 1..MaxJobs              \* values uuid.uuid4() can return
RemoteJobIds == {101}             \* job_id values the start endpoint returns
QueryIds == RemoteJobIds          \* job_id arguments of the query tools
SaveTo == {None, Some("out.json")}    \* save_to arguments
Methods == {"FEL"}                \* run_fel: a caller of run_hyphy_method
AlignmentFiles == {"aln.fas"}
TreeFiles == {None, Some("tree.nwk")}
PValues == {1}                    \* pvalue keyword argument, in tenths

\* outcome of GET /health
HealthOutcomes == {"ok", "unreachable"}
\* outcome of POST /datasets: an id, a non-2xx status, or a body without "id"
DatasetOutcomes == {"id", "http_error", "no_id"}
\* outcome of POST /methods/<m>-start
StartOutcomes == {"job_id", "request_failed", "http_error", "no_job_id"}
\* outcome of GET /jobs/<id>: reported status, or a failing request
RemoteStatuses == {"queued", "running", "completed", "error", "unknown"}
JobOutcomes == RemoteStatuses \cup {"http_error"}
\* outcome of GET /jobs/<id>/results
ResultsOutcomes == {"results", "http_error"}

VARIABLES
    jobs,           \* datamonkey_state["jobs"]: internal id -> job record
    temp_dir,       \* datamonkey_state["temp_dir"]
    issued,         \* values uuid.uuid4() has returned so far
    accepted,       \* internal id -> response returned to the submitter
    threads,        \* internal id -> number of worker threads started for it
    w_pc,           \* internal id -> position of its worker thread
    w_local,        \* internal id -> local variables of its worker thread
    reply,          \* value returned by the last tool call
    call            \* the last tool call: its name, arguments, requests sent

vars == <<jobs, temp_dir, issued, accepted, threads, w_pc, w_local, reply, call>>

\* ------------------------------------------------------------ pure helpers

\* ensure_datamonkey_api_connection: True, or ConnectionError
ensure_datamonkey_api_connection(health) ==
    IF health = "ok" THEN "ok" ELSE "ConnectionError"

\* upload_file_to_datamonkey: the dictionary it returns; it never raises
upload_file_to_datamonkey(health, exists, resp) ==
    IF ensure_datamonkey_api_connection(health) # "ok"
        THEN [status |-> "error", error |-> "ConnectionError"]
    ELSE IF ~exists
        THEN [status |-> "error", error |-> "File not found"]
    ELSE IF resp = "http_error"
        THEN [status |-> "error", error |-> "HTTPError"]
    ELSE IF resp = "no_id"
        THEN [status |-> "error", error |-> "Invalid response"]
    ELSE [status |-> "success", error |-> "none"]

\* the results of every upload the environment can produce
UploadResults ==
    { upload_file_to_datamonkey(h, e, r) :
        h \in HealthOutcomes, e \in BOOLEAN, r \in DatasetOutcomes }

\* the start request of the worker: job_data['job_id'], or the exception raised
StartRequest(resp) ==
    IF resp = "request_failed" THEN [ok |-> FALSE, exc |-> "RequestException"]
    ELSE IF resp = "http_error" THEN [ok |-> FALSE, exc |-> "HTTPError"]
    ELSE IF resp = "no_job_id" THEN [ok |-> FALSE, exc |-> "ValueError"]
    ELSE [ok |-> TRUE, exc |-> "none"]

StartResults == { StartRequest(resp) : resp \in StartOutcomes }

\* variant: a handler written as 'except requests.RequestException'
Catches_OnlyRequestErrors(exc) == exc \in {"RequestException", "HTTPError"}

\* except Exception: the exception classes the worker's handler catches
Catches(exc) == TRUE

\* a new registry record, as run_hyphy_method_async stores it
NewRecord(method, alignment_file, tree_file, pvalue) ==
    [ method            |-> method,
      alignment_file    |-> alignment_file,
      tree_file         |-> tree_file,
      kwargs            |-> [pvalue |-> pvalue],
      status            |-> "queued",
      results           |-> None,
      error             |-> None,
      datamonkey_job_id |-> None,
      output_file       |-> None ]

\* os.path.join(temp_dir, f"{method}_{job_id}.json")
OutputPath(dir, method, remote_id) == <<dir, method, remote_id>>

NoLocals == [alignment_handle |-> None, tree_handle |-> None,
             datamonkey_job_id |-> None, e |-> None]

Status(j) == IF j \in DOMAIN jobs THEN jobs[j].status ELSE "absent"

\* no tool has been called yet
NoCall == [tool |-> "none", input |-> <<>>, requests |-> <<>>,
           response |-> None, pc |-> "returned", polls |-> 0]

\* -------------------------------------------------------------------- Init
Init ==
    /\ jobs = <<>>
    /\ temp_dir = None
    /\ issued = {}
    /\ accepted = <<>>
    /\ threads = [j \in JobIds |-> 0]
    /\ w_pc = [j \in JobIds |-> "none"]
    /\ w_local = [j \in JobIds |-> NoLocals]
    /\ reply = None
    /\ call = NoCall

\* ------------------------------------------------------------- submission

\* variant: an id generator that can repeat a value
uuid4_Repeating == JobIds

\* uuid.uuid4(): a value it has not returned before
uuid4 == JobIds \ issued

\* tempfile.mkdtemp(prefix="datamonkey_mcp_")
mkdtemp == "datamonkey_mcp_1"

\* variant: the submitter runs the worker's first step before returning
StartWorker_RunsInline(id) ==
    /\ threads' = [threads EXCEPT ![id] = @ + 1]
    /\ w_pc' = [w_pc EXCEPT ![id] = "upload_alignment"]
    /\ w_local' = [w_local EXCEPT ![id] = NoLocals]

\* threading.Thread(target=run_hyphy_method_async_worker, ...).start()
StartWorker(id) ==
    /\ threads' = [threads EXCEPT ![id] = @ + 1]
    /\ w_pc' = [w_pc EXCEPT ![id] = "start"]
    /\ w_local' = [w_local EXCEPT ![id] = NoLocals]

\* the 'accepted' dictionary run_hyphy_method_async returns
AcceptedResponse(id) ==
    [status |-> "accepted", job_id |-> Some(id), error |-> None,
     results |-> None, output_file |-> None]

\* a dictionary with status 'error', or an exception leaving the call
ErrorResponse(status, msg) ==
    [status |-> status, job_id |-> None, error |-> Some(msg),
     results |-> None, output_file |-> None]

\* variant: the temporary directory is created before the health check
SubmitJob_DirBeforeHealth(method, alignment_file, tree_file, pvalue, health) ==
    /\ Cardinality(issued) < MaxJobs
    /\ temp_dir' = IF temp_dir = None THEN Some(mkdtemp) ELSE temp_dir
    /\ IF ensure_datamonkey_api_connection(health) # "ok"
       THEN /\ reply' = Some(ErrorResponse("raised", "ConnectionError"))
            /\ UNCHANGED <<jobs, issued, accepted, threads, w_pc, w_local>>
       ELSE \E id \in uuid4 :
            /\ issued' = issued \cup {id}
            /\ jobs' = (id :> NewRecord(method, alignment_file, tree_file, pvalue)) @@ jobs
            /\ StartWorker(id)
            /\ accepted' = (id :> AcceptedResponse(id)) @@ accepted
            /\ reply' = Some(AcceptedResponse(id))

\* the body of run_hyphy_method_async: health check, temp_dir, new record,
\* worker thread, 'accepted'; reply is what it returns or raises
SubmitJob(method, alignment_file, tree_file, pvalue, health) ==
    /\ Cardinality(issued) < MaxJobs
    /\ IF ensure_datamonkey_api_connection(health) # "ok"
       THEN /\ reply' = Some(ErrorResponse("raised", "ConnectionError"))
            /\ UNCHANGED <<jobs, temp_dir, issued, accepted, threads, w_pc, w_local>>
       ELSE \E id \in uuid4 :
            /\ temp_dir' = IF temp_dir = None THEN Some(mkdtemp) ELSE temp_dir
            /\ issued' = issued \cup {id}
            /\ jobs' = (id :> NewRecord(method, alignment_file, tree_file, pvalue)) @@ jobs
            /\ StartWorker(id)
            /\ accepted' = (id :> AcceptedResponse(id)) @@ accepted
            /\ reply' = Some(AcceptedResponse(id))

\* run_hyphy_method_async called on its own
run_hyphy_method_async(method, alignment_file, tree_file, pvalue, health) ==
    /\ SubmitJob(method, alignment_file, tree_file, pvalue, health)
    /\ UNCHANGED call

\* run_hyphy_method_async one statement at a time, for calls that run in
\* different threads: w_pc[id] is the position of the call that will draw id

\* tempfile.mkdtemp as the call drawing id sees it: a directory that did not
\* exist before
mkdtemp_fresh(id) == "datamonkey_mcp_" \o ToString(id)

\* ensure_datamonkey_api_connection(); if datamonkey_state["temp_dir"] is None
SubmitTestDir(id, health) ==
    /\ id \in uuid4
    /\ w_pc[id] = "none"
    /\ IF ensure_datamonkey_api_connection(health) # "ok"
       THEN /\ reply' = Some(ErrorResponse("raised", "ConnectionError"))
            /\ UNCHANGED w_pc
       ELSE /\ w_pc' = [w_pc EXCEPT ![id] = IF temp_dir = None THEN "mkdtemp"
                                            ELSE "store_record"]
            /\ UNCHANGED reply
    /\ UNCHANGED <<jobs, temp_dir, issued, accepted, threads, w_local, call>>

\* datamonkey_state["temp_dir"] = tempfile.mkdtemp(prefix="datamonkey_mcp_")
SubmitMkdtemp(id) ==
    /\ w_pc[id] = "mkdtemp"
    /\ temp_dir' = Some(mkdtemp_fresh(id))
    /\ w_pc' = [w_pc EXCEPT ![id] = "store_record"]
    /\ UNCHANGED <<jobs, issued, accepted, threads, w_local, reply, call>>

\* the id, the record, the worker thread and the 'accepted' dictionary
SubmitStoreRecord(id, method, alignment_file, tree_file, pvalue) ==
    /\ w_pc[id] = "store_record"
    /\ issued' = issued \cup {id}
    /\ jobs' = (id :> NewRecord(method, alignment_file, tree_file, pvalue)) @@ jobs
    /\ StartWorker(id)
    /\ accepted' = (id :> AcceptedResponse(id)) @@ accepted
    /\ reply' = Some(AcceptedResponse(id))
    /\ UNCHANGED <<temp_dir, call>>

\* variant: run_hyphy_method waits for the job and returns its results
run_hyphy_method_ReturnsResults(method, alignment_file, tree_file, pvalue, health) ==
    /\ Cardinality(issued) < MaxJobs
    /\ reply' = Some([status |-> "success", job_id |-> None, error |-> None,
                      results |-> Some("results"), output_file |-> None])
    /\ UNCHANGED <<jobs, temp_dir, issued, accepted, threads, w_pc, w_local>>

\* run_hyphy_method: always the asynchronous path
run_hyphy_method(method, alignment_file, tree_file, pvalue, health) ==
    SubmitJob(method, alignment_file, tree_file, pvalue, health)

\* what run_fel and run_meme return for the job_info of run_hyphy_method:
\* 'error' when it raised, 'accepted' for a background job, else the summary
RunToolResponse(job_info) ==
    IF job_info.status = "raised"
        THEN ErrorResponse("error", job_info.error[1])
    ELSE IF job_info.status = "accepted"
        THEN [status |-> "accepted", job_id |-> job_info.job_id, error |-> None,
              results |-> None, output_file |-> None]
    ELSE [status |-> "success", job_id |-> None, error |-> None,
          results |-> Some("summary"), output_file |-> None]

\* run_fel and run_meme, the whole call
run_tool(tool, method, alignment_file, tree_file, pvalue, health) ==
    /\ call.pc = "returned"
    /\ run_hyphy_method(method, alignment_file, tree_file, pvalue, health)
    /\ call' = [tool |-> tool, input |-> [health |-> health],
                requests |-> <<"health">>,
                response |-> Some(RunToolResponse(reply'[1])),
                pc |-> "returned", polls |-> 0]

run_fel(alignment_file, tree_file, pvalue, health) ==
    run_tool("run_fel", "FEL", alignment_file, tree_file, pvalue, health)

run_meme(alignment_file, tree_file, pvalue, health) ==
    run_tool("run_meme", "MEME", alignment_file, tree_file, pvalue, health)

\* ------------------------------------------------------------------ worker
\* run_hyphy_method_async_worker(job_id, ...), one step per registry store
\* and per network call

SetLocal(j, name, v) == w_local' = [w_local EXCEPT ![j][name] = v]
Goto(j, pc) == w_pc' = [w_pc EXCEPT ![j] = pc]
SetField(j, name, v) == jobs' = [jobs EXCEPT ![j][name] = v]

\* an exception raised inside the worker's try block
Raise(j, exc) ==
    IF Catches(exc)
    THEN /\ w_local' = [w_local EXCEPT ![j] = [NoLocals EXCEPT !.e = Some(exc)]]
         /\ Goto(j, "except_status")
    ELSE /\ w_local' = [w_local EXCEPT ![j] = NoLocals]
         /\ Goto(j, "crashed")

\* variant: the worker presets the remote id field when it starts
WorkerSetRunning_PresetsId(j) ==
    /\ w_pc[j] = "start"
    /\ jobs' = [jobs EXCEPT ![j]["status"] = "running",
                            ![j]["datamonkey_job_id"] = Some(j)]
    /\ Goto(j, "upload_alignment")
    /\ UNCHANGED <<temp_dir, issued, accepted, threads, w_local, reply, call>>

\* datamonkey_state["jobs"][job_id]["status"] = "running"
WorkerSetRunning(j) ==
    /\ w_pc[j] = "start"
    /\ SetField(j, "status", "running")
    /\ Goto(j, "upload_alignment")
    /\ UNCHANGED <<temp_dir, issued, accepted, threads, w_local, reply, call>>

\* alignment_handle = upload_file_to_datamonkey(alignment_file);
\* tree_handle = ... if tree_file else None
WorkerUploadAlignment(j) ==
    /\ w_pc[j] = "upload_alignment"
    /\ \E res \in UploadResults : SetLocal(j, "alignment_handle", Some(res.status))
    /\ Goto(j, IF jobs[j].tree_file # None THEN "upload_tree" ELSE "start_request")
    /\ UNCHANGED <<jobs, temp_dir, issued, accepted, threads, reply, call>>

WorkerUploadTree(j) ==
    /\ w_pc[j] = "upload_tree"
    /\ \E res \in UploadResults : SetLocal(j, "tree_handle", Some(res.status))
    /\ Goto(j, "start_request")
    /\ UNCHANGED <<jobs, temp_dir, issued, accepted, threads, reply, call>>

\* payload, requests.post(.../methods/<m>-start), raise_for_status, json(),
\* the 'job_id' test, datamonkey_job_id = job_data['job_id'].  The upload
\* results are read here for the last time (they go into the payload).
WorkerStartRequest(j) ==
    /\ w_pc[j] = "start_request"
    /\ \E r \in StartResults :
          IF r.ok
          THEN \E rid \in RemoteJobIds :
                  /\ w_local' = [w_local EXCEPT ![j] =
                                    [NoLocals EXCEPT !.datamonkey_job_id = Some(rid)]]
                  /\ Goto(j, "store_job_id")
          ELSE Raise(j, r.exc)
    /\ UNCHANGED <<jobs, temp_dir, issued, accepted, threads, reply, call>>

\* datamonkey_state["jobs"][job_id]["datamonkey_job_id"] = datamonkey_job_id
WorkerStoreJobId(j) ==
    /\ w_pc[j] = "store_job_id"
    /\ SetField(j, "datamonkey_job_id", w_local[j].datamonkey_job_id)
    /\ Goto(j, "store_output_file")
    /\ UNCHANGED <<temp_dir, issued, accepted, threads, w_local, reply, call>>

\* variant: the output path cannot be built although temp_dir is set
WorkerStoreOutputFile_Raises(j) ==
    /\ w_pc[j] = "store_output_file"
    /\ Raise(j, "TypeError")
    /\ UNCHANGED <<jobs, temp_dir, issued, accepted, threads, reply, call>>

\* variant: the worker marks the job completed once the remote job is started
WorkerStoreOutputFile_MarksCompleted(j) ==
    /\ w_pc[j] = "store_output_file"
    /\ temp_dir # None
    /\ jobs' = [jobs EXCEPT ![j]["output_file"] =
                    Some(OutputPath(temp_dir[1], jobs[j].method,
                                    w_local[j].datamonkey_job_id[1])),
                            ![j]["status"] = "completed"]
    /\ Goto(j, "done")
    /\ w_local' = [w_local EXCEPT ![j] = NoLocals]
    /\ UNCHANGED <<temp_dir, issued, accepted, threads, reply, call>>

\* output_file = os.path.join(temp_dir, ...); jobs[job_id]["output_file"] = output_file
WorkerStoreOutputFile(j) ==
    /\ w_pc[j] = "store_output_file"
    /\ IF temp_dir = None
       THEN /\ Raise(j, "TypeError")
            /\ UNCHANGED jobs
       ELSE /\ SetField(j, "output_file",
                   Some(OutputPath(temp_dir[1], jobs[j].method,
                                   w_local[j].datamonkey_job_id[1])))
            /\ Goto(j, "done")
            /\ w_local' = [w_local EXCEPT ![j] = NoLocals]
    /\ UNCHANGED <<temp_dir, issued, accepted, threads, reply, call>>

\* variant: the handler puts the job back in the queue
WorkerExceptStatus_Requeues(j) ==
    /\ w_pc[j] = "except_status"
    /\ SetField(j, "status", "queued")
    /\ Goto(j, "except_error")
    /\ UNCHANGED <<temp_dir, issued, accepted, threads, w_local, reply, call>>

\* except Exception as e: datamonkey_state["jobs"][job_id]["status"] = "error"
WorkerExceptStatus(j) ==
    /\ w_pc[j] = "except_status"
    /\ SetField(j, "status", "error")
    /\ Goto(j, "except_error")
    /\ UNCHANGED <<temp_dir, issued, accepted, threads, w_local, reply, call>>

\* datamonkey_state["jobs"][job_id]["error"] = str(e)
WorkerExceptError(j) ==
    /\ w_pc[j] = "except_error"
    /\ SetField(j, "error", w_local[j].e)
    /\ Goto(j, "done")
    /\ w_local' = [w_local EXCEPT ![j] = NoLocals]
    /\ UNCHANGED <<temp_dir, issued, accepted, threads, reply, call>>

Worker(j) ==
    \/ WorkerSetRunning(j)
    \/ WorkerUploadAlignment(j)
    \/ WorkerUploadTree(j)
    \/ WorkerStartRequest(j)
    \/ WorkerStoreJobId(j)
    \/ WorkerStoreOutputFile(j)
    \/ WorkerExceptStatus(j)
    \/ WorkerExceptError(j)

\* ----------------------------------------------------------------- queries

\* variant: the body of a non-2xx answer is read without raise_for_status
CheckStatusReply_NoRaiseForStatus(job_id, health, job, res, has_save_to) ==
    IF ensure_datamonkey_api_connection(health) # "ok"
        THEN ErrorResponse("error", "ConnectionError")
    ELSE [status |-> IF job = "http_error" THEN "unknown" ELSE job,
          job_id |-> Some(job_id), error |-> None, results |-> None,
          output_file |-> None]

\* check_datamonkey_job_status(job_id): the dictionary it returns
CheckStatusReply(job_id, health, job, res, has_save_to) ==
    IF ensure_datamonkey_api_connection(health) # "ok"
        THEN ErrorResponse("error", "ConnectionError")
    ELSE IF job = "http_error"
        THEN ErrorResponse("error", "HTTPError")
    ELSE IF job = "error"
        THEN [status |-> "error", job_id |-> Some(job_id),
              error |-> Some("error_message"), results |-> None, output_file |-> None]
    ELSE IF job \in {"queued", "running"}
        THEN [status |-> job, job_id |-> Some(job_id),
              error |-> None, results |-> None, output_file |-> None]
    ELSE IF job = "completed"
        THEN IF res = "http_error"
             THEN ErrorResponse("error", "HTTPError")
             ELSE [status |-> job, job_id |-> Some(job_id), error |-> None,
                   results |-> Some("results"),
                   output_file |-> IF has_save_to THEN Some("save_to") ELSE None]
    ELSE [status |-> job, job_id |-> Some(job_id),
          error |-> None, results |-> None, output_file |-> None]

\* variant: the status tool copies the reported status into the registry
check_datamonkey_job_status_UpdatesRegistry(job_id) ==
    /\ \E job \in RemoteStatuses :
          /\ reply' = Some(CheckStatusReply(job_id, "ok", job, "results", FALSE))
          /\ jobs' = [j \in DOMAIN jobs |->
                        IF jobs[j].datamonkey_job_id = Some(job_id)
                        THEN [jobs[j] EXCEPT !.status = job] ELSE jobs[j]]
    /\ UNCHANGED <<temp_dir, issued, accepted, threads, w_pc, w_local, call>>

check_datamonkey_job_status(job_id) ==
    /\ reply' \in { Some(CheckStatusReply(job_id, health, job, res, has_save_to)) :
                      health \in HealthOutcomes, job \in JobOutcomes,
                      res \in ResultsOutcomes, has_save_to \in BOOLEAN }
    /\ UNCHANGED <<jobs, temp_dir, issued, accepted, threads, w_pc, w_local, call>>

\* fetch_datamonkey_job_results(job_id, save_to): the dictionary it returns
FetchResultsReply(job_id, save_to, health, job, res) ==
    IF ensure_datamonkey_api_connection(health) # "ok"
        THEN ErrorResponse("error", "ConnectionError")
    ELSE IF job = "http_error"
        THEN ErrorResponse("error", "HTTPError")
    ELSE IF job # "completed"
        THEN ErrorResponse("error", "not completed")
    ELSE IF res = "http_error"
        THEN ErrorResponse("error", "HTTPError")
    ELSE [status |-> "success", job_id |-> Some(job_id), error |-> None,
          results |-> Some("results"), output_file |-> save_to]

fetch_datamonkey_job_results(job_id, save_to) ==
    /\ reply' \in { Some(FetchResultsReply(job_id, save_to, health, job, res)) :
                      health \in HealthOutcomes, job \in JobOutcomes,
                      res \in ResultsOutcomes }
    /\ UNCHANGED <<jobs, temp_dir, issued, accepted, threads, w_pc, w_local, call>>

\* -------------------------------------------------------------- tool calls
\* one client calling the tools one at a time; call records the call made

\* the fourteen start_<method>_job tools
StartTools ==
    {"start_busted_job", "start_fel_job", "start_meme_job", "start_absrel_job",
     "start_bgm_job", "start_contrast_fel_job", "start_fade_job",
     "start_fubar_job", "start_gard_job", "start_multihit_job",
     "start_nrm_job", "start_relax_job", "start_slac_job", "start_slatkin_job"}

\* job_id arguments of the status tool: internal ids, remote ids, and an id
\* that neither the registry nor the remote service ever issued
UnknownJobIds == {0}
ToolQueryIds == JobIds \cup RemoteJobIds \cup UnknownJobIds

\* GET /jobs/<id> as the remote service answers it: a non-2xx status for an
\* id it did not issue
JobOutcomesFor(job_id) ==
    IF job_id \in RemoteJobIds THEN JobOutcomes ELSE {"http_error"}

\* the keys of the dictionary upload_file_to_datamonkey returns
UploadKeys(res) ==
    IF res.status = "success"
    THEN {"status", "file_handle", "file_name", "file_size"}
    ELSE {"status", "error"}

\* the requests one upload_file_to_datamonkey call sends, in order
UploadRequests(health, exists) ==
    IF ensure_datamonkey_api_connection(health) = "ok" /\ exists
    THEN <<"health", "upload">>
    ELSE <<"health">>

\* one upload_file_to_datamonkey call: what it returns and what it sends
UploadCalls ==
    { [result |-> upload_file_to_datamonkey(h, e, r),
       requests |-> UploadRequests(h, e)] :
        h \in HealthOutcomes, e \in BOOLEAN, r \in DatasetOutcomes }

\* an upload the call does not reach
NoUpload == [result |-> [status |-> "unused", error |-> "none"], requests |-> <<>>]

\* the dictionary of an upload, returned as the tool's response
UploadResponse(res) ==
    [status |-> res.status, job_id |-> None,
     error |-> IF "error" \in UploadKeys(res) THEN Some(res.error) ELSE None,
     results |-> None, output_file |-> None]

\* a tool call returns: the response goes to the caller
ToolReturn(tool, input, requests, response) ==
    /\ call' = [tool |-> tool, input |-> input, requests |-> requests,
                response |-> Some(response), pc |-> "returned", polls |-> 0]
    /\ reply' = Some(response)
    /\ UNCHANGED <<jobs, temp_dir, issued, accepted, threads, w_pc, w_local>>

\* upload_file_to_datamonkey called as a tool
call_upload_file_to_datamonkey ==
    /\ call.pc = "returned"
    /\ \E h \in HealthOutcomes, e \in BOOLEAN, r \in DatasetOutcomes :
          ToolReturn("upload_file_to_datamonkey", [exists |-> e, health |-> h],
                     UploadRequests(h, e),
                     UploadResponse(upload_file_to_datamonkey(h, e, r)))

\* the files a start tool uploads, in order
UploadsOf(tool, tree_file) ==
    IF tool = "start_slatkin_job" THEN <<"tree_file">>
    ELSE IF tree_file THEN <<"alignment_file", "tree_file">>
    ELSE <<"alignment_file">>

\* variant: a start tool goes on to the next upload whatever the last returned
UploadRejected_Never(tool, res) == FALSE

\* the test a start tool makes on an upload's dictionary before going on:
\* start_busted_job compares 'status', the others look for the key 'error'
UploadRejected(tool, res) ==
    IF tool = "start_busted_job" THEN res.status # "success"
    ELSE "error" \in UploadKeys(res)

\* the key under which a start tool reads the handle of an upload
HandleKey(tool) ==
    IF tool = "start_busted_job" THEN "file_handle" ELSE "handle"

\* the validated arguments of the start tools at their defaults;
\* concentration_parameter in thousandths, pvalue and weight in hundredths,
\* a compartment definition as the set of its keys
DefaultArgs ==
    [grid_points |-> 20, concentration_parameter |-> 500, rate_classes |-> 3,
     samples |-> 100, pvalue |-> 10, groups |-> 2, replicates |-> 1000,
     weight |-> 20, compartment_definitions |-> <<>>]

\* the arguments a start tool validates
ValidatedParams(tool) ==
    IF tool = "start_fubar_job" THEN {"grid_points", "concentration_parameter"}
    ELSE IF tool = "start_multihit_job" THEN {"rate_classes"}
    ELSE IF tool = "start_slac_job" THEN {"samples", "pvalue"}
    ELSE IF tool = "start_slatkin_job"
        THEN {"groups", "replicates", "weight", "compartment_definitions"}
    ELSE {}

\* values of each validated argument on both sides of its limits
ArgValues(param) ==
    IF param = "grid_points" THEN {4, 5, 50, 51}
    ELSE IF param = "concentration_parameter" THEN {0, 1, 1000, 1001}
    ELSE IF param = "rate_classes" THEN {0, 1, 10, 11}
    ELSE IF param = "samples" THEN {0, 1}
    ELSE IF param = "pvalue" THEN {-1, 0, 100, 101}
    ELSE IF param = "groups" THEN {1, 2, 100, 101}
    ELSE IF param = "replicates" THEN {0, 1, 1000000, 1000001}
    ELSE IF param = "weight" THEN {-1, 0, 100, 101}
    ELSE {<<{"description", "regexp"}>>, <<{"description"}>>,
          <<{"description", "regexp"}, {"regexp"}>>}

\* the argument records a start tool is called with: the defaults, and the
\* defaults with one validated argument changed
StartArgs(tool) ==
    {DefaultArgs} \cup
    UNION { { [DefaultArgs EXCEPT ![p] = v] : v \in ArgValues(p) } :
              p \in ValidatedParams(tool) }

\* variant: start_slac_job does not check samples
Validate_SkipsSamples(tool, a) ==
    IF tool = "start_fubar_job"
        THEN IF a.grid_points < 5 \/ a.grid_points > 50
                 THEN Some("Grid points must be between 5 and 50")
             ELSE IF a.concentration_parameter < 1 \/ a.concentration_parameter > 1000
                 THEN Some("Concentration parameter must be between 0.001 and 1")
             ELSE None
    ELSE IF tool = "start_multihit_job"
        THEN IF a.rate_classes < 1 \/ a.rate_classes > 10
                 THEN Some("Rate classes must be between 1 and 10")
             ELSE None
    ELSE IF tool = "start_slac_job"
        THEN IF a.pvalue < 0 \/ a.pvalue > 100
                 THEN Some("P-value must be between 0 and 1")
             ELSE None
    ELSE IF tool = "start_slatkin_job"
        THEN IF a.groups < 2 \/ a.groups > 100
                 THEN Some("Groups must be between 2 and 100")
             ELSE IF a.replicates < 1 \/ a.replicates > 1000000
                 THEN Some("Replicates must be between 1 and 1000000")
             ELSE IF a.weight < 0 \/ a.weight > 100
                 THEN Some("Weight must be between 0 and 1")
             ELSE IF \E i \in DOMAIN a.compartment_definitions :
                        \/ "description" \notin a.compartment_definitions[i]
                        \/ "regexp" \notin a.compartment_definitions[i]
                 THEN Some("Each compartment definition must have 'description' and 'regexp' fields")
             ELSE None
    ELSE None

\* the parameter validation of a start tool: the error it returns, if any
Validate(tool, a) ==
    IF tool = "start_fubar_job"
        THEN IF a.grid_points < 5 \/ a.grid_points > 50
                 THEN Some("Grid points must be between 5 and 50")
             ELSE IF a.concentration_parameter < 1 \/ a.concentration_parameter > 1000
                 THEN Some("Concentration parameter must be between 0.001 and 1")
             ELSE None
    ELSE IF tool = "start_multihit_job"
        THEN IF a.rate_classes < 1 \/ a.rate_classes > 10
                 THEN Some("Rate classes must be between 1 and 10")
             ELSE None
    ELSE IF tool = "start_slac_job"
        THEN IF a.samples < 1
                 THEN Some("Samples must be at least 1")
             ELSE IF a.pvalue < 0 \/ a.pvalue > 100
                 THEN Some("P-value must be between 0 and 1")
             ELSE None
    ELSE IF tool = "start_slatkin_job"
        THEN IF a.groups < 2 \/ a.groups > 100
                 THEN Some("Groups must be between 2 and 100")
             ELSE IF a.replicates < 1 \/ a.replicates > 1000000
                 THEN Some("Replicates must be between 1 and 1000000")
             ELSE IF a.weight < 0 \/ a.weight > 100
                 THEN Some("Weight must be between 0 and 1")
             ELSE IF \E i \in DOMAIN a.compartment_definitions :
                        \/ "description" \notin a.compartment_definitions[i]
                        \/ "regexp" \notin a.compartment_definitions[i]
                 THEN Some("Each compartment definition must have 'description' and 'regexp' fields")
             ELSE None
    ELSE None

\* start_<method>_job, the whole call: the environment's answers it met, the
\* requests it sent and the dictionary it returns
StartJobResult(tool, args, tree_file, health, u1, u2, start) ==
    LET two == Len(UploadsOf(tool, tree_file)) = 2
        input == [tree_file |-> tree_file, health |-> health, args |-> args,
                  uploads |-> IF two THEN <<u1.result.status, u2.result.status>>
                              ELSE <<u1.result.status>>,
                  upload_errors |-> IF two THEN <<u1.result.error, u2.result.error>>
                                    ELSE <<u1.result.error>>,
                  start |-> start]
        uploaded == <<"health">> \o u1.requests
                       \o (IF two THEN u2.requests ELSE <<>>)
    IN  IF ensure_datamonkey_api_connection(health) # "ok"
            THEN [input |-> input, requests |-> <<"health">>,
                  response |-> ErrorResponse("error", "ConnectionError")]
        ELSE IF Validate(tool, args) # None
            THEN [input |-> input, requests |-> <<"health">>,
                  response |-> ErrorResponse("error", Validate(tool, args)[1])]
        ELSE IF UploadRejected(tool, u1.result)
            THEN [input |-> input, requests |-> <<"health">> \o u1.requests,
                  response |-> UploadResponse(u1.result)]
        ELSE IF two /\ UploadRejected(tool, u2.result)
            THEN [input |-> input, requests |-> uploaded,
                  response |-> UploadResponse(u2.result)]
        ELSE IF HandleKey(tool) \notin UploadKeys(u1.result)
            THEN [input |-> input, requests |-> uploaded,
                  response |-> ErrorResponse("error", "KeyError")]
        ELSE IF start = "job_id"
            THEN [input |-> input, requests |-> uploaded \o <<"start">>,
                  response |-> [status |-> "accepted",
                                job_id |-> Some(CHOOSE r \in RemoteJobIds : TRUE),
                                error |-> None, results |-> None,
                                output_file |-> None]]
        ELSE [input |-> input, requests |-> uploaded \o <<"start">>,
              response |-> ErrorResponse("error",
                  IF start = "no_job_id" THEN "Invalid response"
                  ELSE StartRequest(start).exc)]

call_start_job(tool, args, tree_file) ==
    /\ call.pc = "returned"
    /\ tool = "start_slatkin_job" => tree_file
    /\ \E health \in HealthOutcomes :
       \E u1 \in IF health = "ok" /\ Validate(tool, args) = None
                 THEN UploadCalls ELSE {NoUpload} :
       \E u2 \in IF /\ u1.result.status = "success"
                    /\ Len(UploadsOf(tool, tree_file)) = 2
                 THEN UploadCalls ELSE {NoUpload} :
       \E start \in IF /\ u1.result.status = "success"
                       /\ u2.result.status \in {"success", "unused"}
                    THEN StartOutcomes ELSE {"unused"} :
          LET r == StartJobResult(tool, args, tree_file, health, u1, u2, start)
          IN  ToolReturn(tool, r.input, r.requests, r.response)

\* check_datamonkey_api: 'connected' is False and there is no 'status' key
\* when the health check fails
call_check_datamonkey_api ==
    /\ call.pc = "returned"
    /\ \E health \in HealthOutcomes, again \in HealthOutcomes :
          ToolReturn("check_datamonkey_api", [health |-> health],
              IF health = "ok" THEN <<"health", "health">> ELSE <<"health">>,
              IF health = "ok" /\ again = "ok"
              THEN [status |-> "OK", job_id |-> None, error |-> None,
                    results |-> None, output_file |-> None]
              ELSE ErrorResponse("absent", IF health = "ok" THEN "HTTPError"
                                           ELSE "ConnectionError"))

\* get_available_methods: the health check is made outside any try
call_get_available_methods ==
    /\ call.pc = "returned"
    /\ \E health \in HealthOutcomes :
          ToolReturn("get_available_methods", [health |-> health], <<"health">>,
              IF ensure_datamonkey_api_connection(health) # "ok"
              THEN ErrorResponse("raised", "ConnectionError")
              ELSE [status |-> "absent", job_id |-> None, error |-> None,
                    results |-> Some("methods"), output_file |-> None])

\* the status the remote service reported to a call: none when the call did
\* not get as far as the status request
Reported(health, job) ==
    IF ensure_datamonkey_api_connection(health) = "ok" THEN job ELSE "unused"

\* variant: the status tool asks for the results of a job that is still running
CheckStatusRequests_ResultsWhileRunning(health, job) ==
    IF ensure_datamonkey_api_connection(health) # "ok" THEN <<"health">>
    ELSE IF job \in {"completed", "running"} THEN <<"health", "status", "results">>
    ELSE <<"health", "status">>

\* the requests check_datamonkey_job_status sends, in order
CheckStatusRequests(health, job) ==
    IF ensure_datamonkey_api_connection(health) # "ok" THEN <<"health">>
    ELSE IF job = "completed" THEN <<"health", "status", "results">>
    ELSE <<"health", "status">>

\* check_datamonkey_job_status called by the client
call_check_datamonkey_job_status(job_id) ==
    /\ call.pc = "returned"
    /\ \E health \in HealthOutcomes, job \in JobOutcomesFor(job_id),
          res \in ResultsOutcomes, has_save_to \in BOOLEAN :
          ToolReturn("check_datamonkey_job_status",
                     [job_id |-> job_id, health |-> health,
                      reported |-> Reported(health, job)],
                     CheckStatusRequests(health, job),
                     CheckStatusReply(job_id, health, job, res, has_save_to))

\* variant: the save_to file is opened before the status is looked at
FetchRequests_WritesFirst(save_to, health, job, res) ==
    CheckStatusRequests(health, job)
        \o (IF Reported(health, job) \in RemoteStatuses /\ save_to # None
            THEN <<"write">> ELSE <<>>)

\* the requests fetch_datamonkey_job_results sends, those of
\* check_datamonkey_job_status, and the write of the save_to file, in order
FetchRequests(save_to, health, job, res) ==
    CheckStatusRequests(health, job)
        \o (IF /\ Reported(health, job) = "completed"
               /\ res # "http_error"
               /\ save_to # None
            THEN <<"write">> ELSE <<>>)

\* fetch_datamonkey_job_results called by the client
call_fetch_datamonkey_job_results(job_id, save_to) ==
    /\ call.pc = "returned"
    /\ \E health \in HealthOutcomes, job \in JobOutcomesFor(job_id),
          res \in ResultsOutcomes :
          ToolReturn("fetch_datamonkey_job_results",
                     [job_id |-> job_id, health |-> health,
                      reported |-> Reported(health, job), save_to |-> save_to,
                      results |-> IF Reported(health, job) = "completed"
                                  THEN res ELSE "unused"],
                     FetchRequests(save_to, health, job, res),
                     FetchResultsReply(job_id, save_to, health, job, res))

\* --------------------------------------------------------- synchronous path
\* run_hyphy_method_sync, one step up to the start request and one per poll

\* max_attempts = 60
max_attempts == 60

\* the request sequences an upload_file_to_datamonkey call can send
UploadRequestSeqs == { u.requests : u \in UploadCalls }

\* run_hyphy_method_sync ends, by return or by an exception leaving it
SyncReturn(response, requests) ==
    /\ call' = [call EXCEPT !.response = Some(response), !.requests = requests,
                            !.pc = "returned", !.polls = 0]
    /\ reply' = Some(response)

\* the requests sent once the loop has polled: "poll" stands for a run of polls
Polled(requests) ==
    IF requests[Len(requests)] = "poll" THEN requests ELSE requests \o <<"poll">>

\* variant: the start request is sent before the tree file is uploaded
SyncRequests_StartBeforeTree(r1, r2) == <<"health">> \o r1 \o <<"start">> \o r2

\* the requests of run_hyphy_method_sync up to the start request, in order
SyncRequests(r1, r2) == <<"health">> \o r1 \o r2 \o <<"start">>

\* lines 117-152: health check, uploads, start request
run_hyphy_method_sync(method, tree_file) ==
    /\ call.pc = "returned"
    /\ \E health \in HealthOutcomes :
       LET input == [tree_file |-> tree_file, health |-> health, method |-> method]
       IN  IF ensure_datamonkey_api_connection(health) # "ok"
           THEN /\ call' = [tool |-> "run_hyphy_method_sync", input |-> input,
                            requests |-> <<"health">>,
                            response |-> Some(ErrorResponse("raised", "ConnectionError")),
                            pc |-> "returned", polls |-> 0]
                /\ reply' = Some(ErrorResponse("raised", "ConnectionError"))
           ELSE \E r1 \in UploadRequestSeqs,
                   r2 \in IF tree_file THEN UploadRequestSeqs ELSE {<<>>},
                   start \in StartOutcomes :
                /\ call' = [tool |-> "run_hyphy_method_sync", input |-> input,
                            requests |-> SyncRequests(r1, r2),
                            response |->
                               IF StartRequest(start).ok THEN None
                               ELSE Some(ErrorResponse("raised", "RuntimeError")),
                            pc |-> IF StartRequest(start).ok THEN "polling"
                                   ELSE "returned",
                            polls |-> 0]
                /\ reply' = call'.response
    /\ UNCHANGED <<jobs, temp_dir, issued, accepted, threads, w_pc, w_local>>

\* variant: a loop that goes on while the job is not finished
SyncPollAllowed_Unbounded(polls) == polls <= max_attempts

\* for attempt in range(max_attempts)
SyncPollAllowed(polls) == polls < max_attempts

\* lines 158-192: one pass of the polling loop, the remote answering st
SyncPoll(st) ==
    /\ call.tool = "run_hyphy_method_sync"
    /\ call.pc = "polling"
    /\ SyncPollAllowed(call.polls)
    /\ IF st = "http_error"
           THEN SyncReturn(ErrorResponse("raised", "RuntimeError"), Polled(call.requests))
       ELSE IF st = "completed"
           THEN IF temp_dir = None
                THEN SyncReturn(ErrorResponse("raised", "RuntimeError"),
                                Polled(call.requests))
                ELSE LET rid == CHOOSE r \in RemoteJobIds : TRUE
                     IN  SyncReturn(
                           [status |-> "success", job_id |-> Some(rid),
                            error |-> None, results |-> Some("results"),
                            output_file |->
                               Some(OutputPath(temp_dir[1], call.input.method, rid))],
                           Polled(call.requests))
       ELSE IF st = "error"
           THEN SyncReturn(ErrorResponse("raised", "RuntimeError: analysis failed"),
                           Polled(call.requests))
       ELSE /\ call' = [call EXCEPT !.polls = @ + 1, !.requests = Polled(@)]
            /\ UNCHANGED reply
    /\ UNCHANGED <<jobs, temp_dir, issued, accepted, threads, w_pc, w_local>>

\* lines 194-195: the loop ran out, TimeoutError wrapped by line 199
SyncTimeout ==
    /\ call.tool = "run_hyphy_method_sync"
    /\ call.pc = "polling"
    /\ ~SyncPollAllowed(call.polls)
    /\ SyncReturn(ErrorResponse("raised", "RuntimeError: timed out"), call.requests)
    /\ UNCHANGED <<jobs, temp_dir, issued, accepted, threads, w_pc, w_local>>

SyncStep == SyncTimeout \/ \E st \in JobOutcomes : SyncPoll(st)

\* ------------------------------------------------------- start payloads
\* the payload a launching tool posts to /methods/<m>-start, as a function
\* from its keys; p-values are in hundredths

\* the tools whose payload is built here
LaunchTools ==
    {"run_fel", "run_meme", "start_busted_job", "start_fel_job", "start_absrel_job"}

\* the optional parameters of each tool's signature
Params(tool) ==
    IF tool \in {"run_fel", "run_meme"} THEN {"tree_file", "pvalue"}
    ELSE IF tool = "start_busted_job" THEN {"tree_file", "branches"}
    ELSE IF tool = "start_fel_job" THEN {"tree_file", "branches", "pvalue"}
    ELSE {"branches"}

\* the payload key a parameter is sent under
PayloadKey(param) == IF param = "tree_file" THEN "tree" ELSE param

\* the arguments of a call: None for a parameter the caller left out
TreeArgs == {None, Some(""), Some("tree.nwk")}
PValueArgs == {None, Some(0), Some(5), Some(10)}
BranchesArgs == {None, Some(""), Some("Internal")}

\* a parameter as the function sees it: the signature's default when omitted
Bind(arg, default) == IF arg = None THEN default ELSE arg

\* the signature defaults: tree_file None, branches None, pvalue 0.1
Bound(args) ==
    [tree_file |-> Bind(args.tree_file, None),
     branches  |-> Bind(args.branches, None),
     pvalue    |-> Bind(args.pvalue, Some(10))]

\* Python truth of a parameter's value: None, '' and 0 are false
Truthy(param, v) ==
    /\ v # None
    /\ IF param = "pvalue" THEN v[1] # 0 ELSE v[1] # ""

\* a dictionary entry added under a condition
Entry(cond, key, v) == IF cond THEN key :> v ELSE <<>>

\* variant: the worker sends every keyword argument it was given
WorkerPayload_SendsFalsy(method, tree_file, kwargs) ==
    ("alignment" :> "alignment_handle")
    @@ Entry(Truthy("tree_file", tree_file), "tree", "tree_handle")
    @@ Entry(method = "BUSTED" /\ "branches" \in DOMAIN kwargs,
             "branches", kwargs["branches"])
    @@ Entry(method \in {"FEL", "MEME"} /\ "pvalue" \in DOMAIN kwargs,
             "pvalue", kwargs["pvalue"])

\* run_hyphy_method_async_worker lines 269-283 (run_hyphy_method_sync 124-138)
WorkerPayload(method, tree_file, kwargs) ==
    ("alignment" :> "alignment_handle")
    @@ Entry(Truthy("tree_file", tree_file), "tree", "tree_handle")
    @@ Entry(method = "BUSTED" /\ "branches" \in DOMAIN kwargs
                               /\ Truthy("branches", kwargs["branches"]),
             "branches", kwargs["branches"])
    @@ Entry(method \in {"FEL", "MEME"} /\ "pvalue" \in DOMAIN kwargs
                                        /\ Truthy("pvalue", kwargs["pvalue"]),
             "pvalue", kwargs["pvalue"])

\* the payload of a start_<method>_job tool after successful uploads: None
\* when reading the handle raises KeyError
StartToolPayload(tool, b) ==
    IF HandleKey(tool) \notin UploadKeys(upload_file_to_datamonkey("ok", TRUE, "id"))
    THEN None
    ELSE Some(("alignment" :> "alignment_handle")
              @@ Entry(tool = "start_fel_job", "pvalue", b.pvalue)
              @@ Entry(tool = "start_absrel_job" \/ Truthy("tree_file", b.tree_file),
                       "tree", "tree_handle")
              @@ Entry(Truthy("branches", b.branches), "branches", b.branches))

\* the payload a tool call with these arguments sends
PayloadOf(tool, args) ==
    LET b == Bound(args)
    IN  IF tool = "run_fel"
            THEN Some(WorkerPayload("FEL", b.tree_file, [pvalue |-> b.pvalue]))
        ELSE IF tool = "run_meme"
            THEN Some(WorkerPayload("MEME", b.tree_file, [pvalue |-> b.pvalue]))
        ELSE StartToolPayload(tool, b)

\* the calls whose payload is built: a parameter outside the tool's signature
\* is never supplied
PayloadInputs ==
    { [tool |-> t, input |-> [tree_file |-> tf, pvalue |-> pv, branches |-> br],
       payload |-> None, pc |-> "input"] :
        t \in LaunchTools, tf \in TreeArgs, pv \in PValueArgs, br \in BranchesArgs }

\* ------------------------------------------------------------ FEL summary
\* run_fel lines 476-499; p-values are in hundredths

\* the per-site dictionaries of fel_results["MLE"]: complete ones, one
\* without "p-value", and a value that is not a dictionary
SiteData ==
    { [is_dict |-> TRUE, d |-> [k \in {"p-value", "beta", "alpha"} |->
                                   IF k = "p-value" THEN pv
                                   ELSE IF k = "beta" THEN b ELSE a]] :
        pv \in {5, 10, 20}, b \in {1, 2}, a \in {1, 3} }
    \cup { [is_dict |-> TRUE, d |-> [k \in {"beta", "alpha"} |-> 1]],
           [is_dict |-> FALSE, d |-> <<>>] }

\* fel_results["MLE"].items(), in the dictionary's order; the keys are the
\* decimal strings of site numbers
SiteLists ==
    {<<>>}
    \cup { <<[site |-> "1", data |-> x]>> : x \in SiteData }
    \cup { <<[site |-> "1", data |-> x], [site |-> "2", data |-> y]>> :
             x \in SiteData, y \in SiteData }
    \cup { <<[site |-> "2", data |-> y], [site |-> "1", data |-> x]>> :
             x \in SiteData, y \in SiteData }

\* int(site)
int(site) == IF site = "1" THEN 1 ELSE 2

\* the tests of lines 481-482 on one site
Significant(data, pvalue) ==
    /\ data.is_dict
    /\ {"p-value", "beta", "alpha"} \subseteq DOMAIN data.d
    /\ data.d["p-value"] <= pvalue

\* variant: a site with beta equal to alpha counts as positive
IsPositive_OrEqual(data) == data.d["beta"] >= data.d["alpha"]

\* data["beta"] > data["alpha"]
IsPositive(data) == data.d["beta"] > data.d["alpha"]

\* the 'results' part of the summary run_fel builds
FelSummary(fel_results, pvalue) ==
    LET items == IF fel_results.has_MLE THEN fel_results.MLE ELSE <<>>
        Pos(en) == Significant(en.data, pvalue) /\ IsPositive(en.data)
        Neg(en) == Significant(en.data, pvalue) /\ ~IsPositive(en.data)
        pos == SelectSeq(items, Pos)
        neg == SelectSeq(items, Neg)
        positive_sites == [i \in DOMAIN pos |-> int(pos[i].site)]
        negative_sites == [i \in DOMAIN neg |-> int(neg[i].site)]
    IN  [positive_selection_sites |-> positive_sites,
         negative_selection_sites |-> negative_sites,
         total_positive_sites |-> Len(positive_sites),
         total_negative_sites |-> Len(negative_sites)]

\* the payloads and thresholds the summary is derived from
FelInputs ==
    { [tool |-> "fel_summary",
       input |-> [fel_results |-> [has_MLE |-> TRUE, MLE |-> m], pvalue |-> t],
       summary |-> None, pc |-> "input"] : m \in SiteLists, t \in {5, 10} }
    \cup
    { [tool |-> "fel_summary",
       input |-> [fel_results |-> [has_MLE |-> FALSE, MLE |-> <<>>], pvalue |-> t],
       summary |-> None, pc |-> "input"] : t \in {5, 10} }

\* the summary is derived
Summarize ==
    /\ call.tool = "fel_summary"
    /\ call.pc = "input"
    /\ call' = [call EXCEPT
                  !.summary = Some(FelSummary(call.input.fel_results, call.input.pvalue)),
                  !.pc = "returned"]
    /\ UNCHANGED <<jobs, temp_dir, issued, accepted, threads, w_pc, w_local, reply>>

\* ---------------------------------------------------------- request traces
\* the requests one job or one call sends up to the start request, each with
\* the file it carries and whether it succeeded

\* the code that uploads and starts: the worker, the synchronous path, and
\* the start tools (start_fel_job standing for them)
Runners == {"run_hyphy_method_async_worker", "run_hyphy_method_sync", "start_fel_job"}

Request(req, file, ok) == [req |-> req, file |-> file, ok |-> ok]

\* what the environment answers to one upload_file_to_datamonkey call
UploadAnswers ==
    [health : HealthOutcomes, exists : BOOLEAN, resp : DatasetOutcomes]

\* upload_file_to_datamonkey(file): GET /health, then POST /datasets
UploadTrace(file, u) ==
    IF ensure_datamonkey_api_connection(u.health) # "ok"
        THEN <<Request("health", "none", FALSE)>>
    ELSE IF ~u.exists
        THEN <<Request("health", "none", TRUE)>>
    ELSE <<Request("health", "none", TRUE),
           Request("upload", file, u.resp # "http_error")>>

\* POST /methods/<m>-start
StartTrace(start) ==
    <<Request("start", "none", start \notin {"request_failed", "http_error"})>>

\* the worker and the synchronous path: both uploads, whatever they return,
\* then the start request
UploadsThenStart(in) ==
    UploadTrace("alignment_file", in.u1)
        \o (IF in.tree_file THEN UploadTrace("tree_file", in.u2) ELSE <<>>)
        \o StartTrace(in.start)

\* a start tool: it returns after an upload that gave an error
StartToolTrace(tool, in) ==
    LET r1 == upload_file_to_datamonkey(in.u1.health, in.u1.exists, in.u1.resp)
        r2 == upload_file_to_datamonkey(in.u2.health, in.u2.exists, in.u2.resp)
        t1 == UploadTrace("alignment_file", in.u1)
        t2 == IF in.tree_file THEN UploadTrace("tree_file", in.u2) ELSE <<>>
    IN  IF UploadRejected(tool, r1) THEN t1
        ELSE IF in.tree_file /\ UploadRejected(tool, r2) THEN t1 \o t2
        ELSE IF HandleKey(tool) \notin UploadKeys(r1) THEN t1 \o t2
        ELSE t1 \o t2 \o StartTrace(in.start)

\* the requests of one runner for the answers in
RequestTrace(runner, in) ==
    IF runner = "run_hyphy_method_async_worker" THEN UploadsThenStart(in)
    ELSE IF ensure_datamonkey_api_connection(in.health) # "ok"
        THEN <<Request("health", "none", FALSE)>>
    ELSE <<Request("health", "none", TRUE)>>
            \o (IF runner = "run_hyphy_method_sync" THEN UploadsThenStart(in)
                ELSE StartToolTrace(runner, in))

TraceInputs ==
    { [tool |-> "requests",
       input |-> [runner |-> r, health |-> h, tree_file |-> tf,
                  u1 |-> u1, u2 |-> u2, start |-> s],
       trace |-> <<>>, pc |-> "input"] :
        r \in Runners, h \in HealthOutcomes, tf \in BOOLEAN,
        u1 \in UploadAnswers, u2 \in UploadAnswers, s \in {"job_id", "http_error"} }

IssueRequests ==
    /\ call.tool = "requests"
    /\ call.pc = "input"
    /\ call' = [call EXCEPT !.trace = RequestTrace(call.input.runner, call.input),
                            !.pc = "returned"]
    /\ UNCHANGED <<jobs, temp_dir, issued, accepted, threads, w_pc, w_local, reply>>

PureInit ==
    /\ jobs = <<>>
    /\ temp_dir = None
    /\ issued = {}
    /\ accepted = <<>>
    /\ threads = [j \in JobIds |-> 0]
    /\ w_pc = [j \in JobIds |-> "none"]
    /\ w_local = [j \in JobIds |-> NoLocals]
    /\ reply = None
    /\ \/ /\ call \in PayloadInputs
          /\ \A p \in DOMAIN call.input :
                p \notin Params(call.tool) => call.input[p] = None
       \/ call \in FelInputs
       \/ /\ call \in TraceInputs
          /\ ~call.input.tree_file => call.input.u2 = call.input.u1
          /\ call.input.runner = "run_hyphy_method_async_worker"
                => call.input.health = "ok"

\* the payload is built and posted
BuildPayload ==
    /\ call.tool \in LaunchTools
    /\ call.pc = "input"
    /\ call' = [call EXCEPT !.payload = PayloadOf(call.tool, call.input),
                            !.pc = "returned"]
    /\ UNCHANGED <<jobs, temp_dir, issued, accepted, threads, w_pc, w_local, reply>>

\* -------------------------------------------------------------------- Next
Submission ==
    \E m \in Methods, a \in AlignmentFiles, t \in TreeFiles,
       p \in PValues, h \in HealthOutcomes :
       run_hyphy_method_async(m, a, t, p, h)

Next ==
    \/ Submission
    \/ \E j \in JobIds : Worker(j)
    \/ \E q \in QueryIds : check_datamonkey_job_status(q)
    \/ \E q \in QueryIds, s \in SaveTo : fetch_datamonkey_job_results(q, s)

Spec == Init /\ [][Next]_vars

\* submissions and workers alone; the worker threads are scheduled fairly
\* and every request they make returns
LifeNext ==
    \/ Submission
    \/ \E j \in JobIds : Worker(j)

FairSpec == Init /\ [][LifeNext]_vars /\ \A j \in JobIds : WF_vars(Worker(j))

\* a client calling the tools that leave the registry alone
ToolNext ==
    \/ call_upload_file_to_datamonkey
    \/ \E tool \in StartTools, tree_file \in BOOLEAN :
          \E args \in StartArgs(tool) : call_start_job(tool, args, tree_file)
    \/ call_check_datamonkey_api
    \/ call_get_available_methods
    \/ \E q \in ToolQueryIds : call_check_datamonkey_job_status(q)
    \/ \E q \in ToolQueryIds, s \in SaveTo : call_fetch_datamonkey_job_results(q, s)

ToolSpec == Init /\ [][ToolNext]_vars

\* one start tool of each shape: 'status' test and 'file_handle'; 'error'
\* test and 'handle'; tree file only
StartToolShapes == {"start_busted_job", "start_fel_job", "start_slatkin_job"}

\* a client with one submitted job: its worker, the status tool, the
\* synchronous path and the start tools
JobSubmission == issued = {} /\ call.pc = "returned" /\ Submission

JobNext ==
    \/ JobSubmission
    \/ \E j \in JobIds : Worker(j)
    \/ \E q \in ToolQueryIds : call_check_datamonkey_job_status(q)
    \/ \E tool \in StartToolShapes, tree_file \in BOOLEAN :
          call_start_job(tool, DefaultArgs, tree_file)
    \/ \E m \in Methods, t \in BOOLEAN : run_hyphy_method_sync(m, t)
    \/ SyncStep

JobSpec == Init /\ [][JobNext]_vars

\* the synchronous path keeps running and every request it makes returns
JobFairSpec == JobSpec /\ WF_vars(SyncStep)

\* a client calling run_fel and run_meme, and the workers of the jobs
RunNext ==
    \/ \E a \in AlignmentFiles, t \in TreeFiles, p \in PValues, h \in HealthOutcomes :
          run_fel(a, t, p, h)
    \/ \E a \in AlignmentFiles, t \in TreeFiles, p \in PValues, h \in HealthOutcomes :
          run_meme(a, t, p, h)
    \/ \E j \in JobIds : Worker(j)

RunSpec == Init /\ [][RunNext]_vars

\* submissions running in different threads, and the workers of their jobs
RaceNext ==
    \/ \E id \in JobIds, h \in HealthOutcomes : SubmitTestDir(id, h)
    \/ \E id \in JobIds : SubmitMkdtemp(id)
    \/ \E id \in JobIds, m \in Methods, a \in AlignmentFiles, t \in TreeFiles,
          p \in PValues : SubmitStoreRecord(id, m, a, t, p)
    \/ \E j \in JobIds : Worker(j)

RaceSpec == Init /\ [][RaceNext]_vars

\* the pure functions applied to every input
PureNext ==
    \/ BuildPayload
    \/ Summarize
    \/ IssueRequests

PureSpec == PureInit /\ [][PureNext]_vars

\* ------------------------------------------------------------- properties

Terminal == {"completed", "error"}

\* the worker of j holds the result of an upload that failed
UploadFailed(j) ==
    \/ w_local[j].alignment_handle = Some("error")
    \/ w_local[j].tree_handle = Some("error")

\* C1: the status of a record only moves queued -> running -> completed or
\* error; it never moves back and never leaves completed or error.
C1_StatusForward ==
    [][\A j \in DOMAIN jobs :
          /\ j \in DOMAIN jobs'
          /\ \/ jobs'[j].status = jobs[j].status
             \/ jobs[j].status = "queued" /\ jobs'[j].status = "running"
             \/ jobs[j].status = "running" /\ jobs'[j].status \in Terminal]_vars

C1_Witness ==
    \E j \in DOMAIN jobs : jobs[j].status = "error" /\ w_pc[j] = "done"

\* C2 (as claimed): once the status of a record is completed or error, no
\* field of the record is written again.
C2_TerminalRecordFrozen ==
    [][\A j \in DOMAIN jobs :
          jobs[j].status \in Terminal =>
              j \in DOMAIN jobs' /\ jobs'[j] = jobs[j]]_vars

\* C3 (as claimed): in every state, also between two stores of the worker,
\* the error field of a record is set exactly when its status is error.
C3_ErrorIffFailed ==
    \A j \in DOMAIN jobs :
        (jobs[j].error # None) <=> (jobs[j].status = "error")

\* C4: in every state the results field of a record is set exactly when its
\* status is completed.
C4_ResultsIffCompleted ==
    \A j \in DOMAIN jobs :
        (jobs[j].results # None) <=> (jobs[j].status = "completed")

\* a worker has started the remote job and returned
C4_Witness ==
    \E j \in DOMAIN jobs :
        /\ w_pc[j] = "done"
        /\ jobs[j].datamonkey_job_id # None
        /\ jobs[j].results = None
        /\ jobs[j].status = "running"

\* C5 (as claimed): with fair workers and returning requests, every queued
\* record eventually reaches completed or error.
C5_EventuallyTerminal ==
    \A j \in JobIds : (Status(j) = "queued") ~> (Status(j) \in Terminal)

\* the worker of j has returned and left the record failed with a cause, or
\* running with the remote job id and the output file
Settled(j) ==
    /\ w_pc[j] = "done"
    /\ j \in DOMAIN jobs
    /\ \/ jobs[j].status = "error" /\ jobs[j].error # None
       \/ /\ jobs[j].status = "running"
          /\ jobs[j].datamonkey_job_id # None
          /\ jobs[j].output_file # None

\* C5 (amended): with fair workers and returning requests, every queued
\* record eventually leaves queued and its worker returns, leaving the
\* record failed with a cause, or running with the remote job id recorded.
C5_EventuallySettled ==
    \A j \in JobIds : (Status(j) = "queued") ~> Settled(j)

C5_Witness ==
    \E j \in DOMAIN jobs : Settled(j) /\ jobs[j].status = "running"

\* C6 (as claimed): a worker that holds a failed upload result fails the
\* job: its next step after the uploads enters the handler that records
\* status error and the cause.
C6_UploadFailureFailsJob ==
    [][\A j \in JobIds :
          (/\ w_pc[j] = "start_request"
           /\ UploadFailed(j)
           /\ w_pc'[j] # "start_request") => w_pc'[j] = "except_status"]_vars

\* C7: a failure of the start request is caught in the worker, which records
\* status error and the error text on its own record; the thread never dies
\* of an exception, and the steps of the failure path change no other record
\* and no response already returned.
C7_FailureContained ==
    [][\A j \in JobIds :
          /\ w_pc'[j] # "crashed"
          /\ (w_pc[j] = "start_request" /\ w_pc'[j] \notin {"start_request", "store_job_id"})
                => /\ w_pc'[j] = "except_status"
                   /\ w_local'[j].e \in {Some("RequestException"), Some("HTTPError"),
                                         Some("ValueError")}
                   /\ jobs' = jobs /\ accepted' = accepted
          /\ (w_pc[j] = "except_status" /\ w_pc'[j] # "except_status")
                => /\ w_pc'[j] = "except_error"
                   /\ jobs'[j].status = "error"
                   /\ \A k \in DOMAIN jobs \ {j} : jobs'[k] = jobs[k]
                   /\ accepted' = accepted
          /\ (w_pc[j] = "except_error" /\ w_pc'[j] # "except_error")
                => /\ w_pc'[j] = "done"
                   /\ jobs'[j].status = "error"
                   /\ jobs'[j].error = w_local[j].e /\ jobs'[j].error # None
                   /\ \A k \in DOMAIN jobs \ {j} : jobs'[k] = jobs[k]
                   /\ accepted' = accepted]_vars

\* a response without job_id has been recorded on one record while another
\* record exists
C7_Witness ==
    \E j \in DOMAIN jobs, k \in DOMAIN jobs :
        /\ j # k
        /\ w_pc[j] = "done"
        /\ jobs[j].status = "error"
        /\ jobs[j].error = Some("ValueError")
        /\ accepted[j].status = "accepted"

\* C8: datamonkey_job_id changes only in the store of the record's own
\* worker that follows a start response with job_id, it is never written a
\* second time, and output_file is only set on a record whose
\* datamonkey_job_id is already set.
C8_RemoteIdOnce ==
    [][\A j \in DOMAIN jobs :
          /\ jobs[j].datamonkey_job_id # None
                => jobs'[j].datamonkey_job_id = jobs[j].datamonkey_job_id
          /\ jobs'[j].datamonkey_job_id # jobs[j].datamonkey_job_id
                => /\ w_pc[j] = "store_job_id"
                   /\ w_pc'[j] = "store_output_file"
                   /\ w_local[j].datamonkey_job_id \in {Some(r) : r \in RemoteJobIds}
                   /\ jobs'[j].datamonkey_job_id = w_local[j].datamonkey_job_id
          /\ jobs'[j].output_file # jobs[j].output_file
                => jobs[j].datamonkey_job_id # None]_vars

\* the remote id is recorded and the output file is not yet
C8_Witness ==
    \E j \in DOMAIN jobs :
        /\ jobs[j].datamonkey_job_id # None
        /\ jobs[j].output_file = None

\* C9: a step that starts a worker thread (an accepted submission) adds
\* exactly one record, queued, under an id that was not in the registry, and
\* leaves every existing record as it was.
C9_FreshRecord ==
    [][threads' # threads =>
          \E id \in JobIds :
              /\ id \notin DOMAIN jobs
              /\ DOMAIN jobs' = DOMAIN jobs \cup {id}
              /\ jobs'[id].status = "queued"
              /\ accepted'[id].job_id = Some(id)
              /\ \A k \in DOMAIN jobs : jobs'[k] = jobs[k]]_vars

\* two submissions have been accepted, the first record already failed
C9_Witness ==
    \E j \in DOMAIN jobs, k \in DOMAIN jobs :
        j # k /\ jobs[j].status = "error" /\ jobs[k].status = "queued"

\* C10: records are never removed; one worker thread is started per record;
\* a step that changes a record is a step of that record's worker and of no
\* other; a step of no worker and no submission (a status or result query)
\* leaves the registry unchanged.
C10_SingleWriter ==
    [][/\ \A j \in DOMAIN jobs :
             /\ j \in DOMAIN jobs'
             /\ jobs'[j] # jobs[j]
                   => /\ w_pc'[j] # w_pc[j]
                      /\ threads' = threads
                      /\ \A k \in JobIds \ {j} : w_pc'[k] = w_pc[k]
       /\ \A j \in JobIds : threads'[j] = IF j \in DOMAIN jobs' THEN 1 ELSE 0
       /\ (w_pc' = w_pc /\ threads' = threads) => jobs' = jobs]_vars

\* a status query has answered while two records exist, one of them with a
\* remote job id
C10_Witness ==
    /\ reply # None
    /\ reply[1].status = "completed"
    /\ \E j \in DOMAIN jobs, k \in DOMAIN jobs :
          j # k /\ jobs[j].datamonkey_job_id = reply[1].job_id

\* C11: a start_<method>_job tool that met a passing health check, successful
\* uploads and a start response holding job_id returns status 'accepted'
\* with that job_id
C11_StartToolAccepted ==
    (/\ call.tool \in StartTools
     /\ call.input.health = "ok"
     /\ \A i \in DOMAIN call.input.uploads : call.input.uploads[i] = "success"
     /\ call.input.start = "job_id")
    => /\ call.response[1].status = "accepted"
       /\ call.response[1].job_id \in {Some(r) : r \in RemoteJobIds}

\* C12: a tool that met an unreachable remote service returns a dictionary
\* with status 'error' and an error message, and does not raise
C12_ToolErrorsStructured ==
    (call.tool # "none" /\ call.input.health # "ok")
    => /\ call.response[1].status = "error"
       /\ call.response[1].error # None

\* C13: upload_file_to_datamonkey on a path that does not exist returns the
\* file-not-found error and sends no request, whatever the remote service does
C13_MissingFileNoRequest ==
    (call.tool = "upload_file_to_datamonkey" /\ ~call.input.exists)
    => /\ call.response[1].status = "error"
       /\ call.response[1].error = Some("File not found")
       /\ call.requests = <<>>

C15_FailedJobReported ==
    [][\A j \in JobIds :
          (/\ j \in DOMAIN jobs
           /\ accepted[j].job_id = Some(j)
           /\ jobs[j].status = "error"
           /\ jobs[j].error # None
           /\ call_check_datamonkey_job_status(j))
          => /\ call'.response[1].status = "error"
             /\ call'.response[1].error = jobs[j].error
             /\ call'.response[1].results = None]_vars

Range(f) == { f[x] : x \in DOMAIN f }

\* position of a request in the order upload(s), start request, status poll(s);
\* the health checks belong to the uploads
RequestRank(r) ==
    IF r \in {"health", "upload"} THEN 1 ELSE IF r = "start" THEN 2 ELSE 3

\* C17: within one job the requests go upload(s), start request, status
\* poll(s): the worker, the synchronous path and the start tools send the
\* start request only after every upload has returned, and a poll only after
\* the start request has returned a job id
C17_RequestOrder ==
    [][/\ call'.tool \in StartTools \cup {"run_hyphy_method_sync"}
          => /\ \A i, k \in DOMAIN call'.requests :
                   i < k => RequestRank(call'.requests[i]) <= RequestRank(call'.requests[k])
             /\ \A k \in DOMAIN call'.requests :
                   call'.requests[k] = "poll"
                   => \E i \in 1..(k - 1) : call'.requests[i] = "start"
             /\ (call'.requests # call.requests /\ "poll" \in Range(call'.requests))
                => call.pc = "polling"
       /\ \A j \in DOMAIN jobs :
             /\ (w_pc[j] = "start_request" /\ w_pc'[j] # "start_request")
                => /\ w_local[j].alignment_handle # None
                   /\ jobs[j].tree_file # None => w_local[j].tree_handle # None
             /\ (w_pc[j] \in {"upload_alignment", "upload_tree"} /\ w_pc'[j] # w_pc[j])
                => /\ w_local[j].datamonkey_job_id = None
                   /\ jobs[j].datamonkey_job_id = None
                   /\ w_pc'[j] \in {"upload_tree", "start_request"}
             /\ w_pc'[j] \in {"upload_alignment", "upload_tree"}
                => w_pc[j] \in {"start", "upload_alignment", "upload_tree"}]_vars

C17_Witness ==
    /\ call.tool = "run_hyphy_method_sync"
    /\ call.requests = <<"health", "health", "upload", "health", "upload", "start", "poll">>
    /\ \E j \in DOMAIN jobs :
          /\ jobs[j].tree_file # None
          /\ w_pc[j] = "store_job_id"

\* C18: a submission returns 'accepted' in the step that inserts the record
\* and starts the worker thread: the record is queued and the worker has sent
\* no request yet
C18_AcceptedBeforeWorkerRuns ==
    [][\A id \in JobIds :
          (id \notin DOMAIN jobs /\ id \in DOMAIN jobs')
          => /\ reply' = Some(AcceptedResponse(id))
             /\ jobs'[id].status = "queued"
             /\ jobs'[id].datamonkey_job_id = None
             /\ threads'[id] = 1
             /\ w_pc'[id] = "start"
             /\ w_local'[id] = NoLocals]_vars

C18_Witness ==
    \E id \in DOMAIN jobs :
        /\ reply = Some(AcceptedResponse(id))
        /\ jobs[id].status = "queued"
        /\ w_pc[id] = "start"

\* run_hyphy_method_sync is in its polling loop
SyncPolling == call.tool = "run_hyphy_method_sync" /\ call.pc = "polling"

\* C19: run_hyphy_method_sync terminates: it sends at most max_attempts
\* polls, stops at the first answer 'completed' or 'error', and fails with the
\* timeout error after max_attempts polls without either; the worker of the
\* asynchronous path records no timeout
C19_SyncTerminates ==
    /\ [](call.tool = "run_hyphy_method_sync" => call.polls <= max_attempts)
    /\ [](\A j \in DOMAIN jobs : jobs[j].error # Some("RuntimeError: timed out"))
    /\ [][SyncPolling =>
            /\ \A st \in JobOutcomes : SyncPoll(st) => call.polls < max_attempts
            /\ \A st \in {"completed", "error"} : SyncPoll(st) => call'.pc = "returned"
            /\ call'.pc = "returned"
               => (call'.response = Some(ErrorResponse("raised", "RuntimeError: timed out"))
                     <=> (call.polls = max_attempts /\ call'.requests = call.requests))
            /\ call'.pc = "polling" => call'.polls \in {call.polls, call.polls + 1}]_vars
    /\ (SyncPolling ~> call.pc = "returned")

C19_Witness ==
    /\ call.tool = "run_hyphy_method_sync"
    /\ call.response = Some(ErrorResponse("raised", "RuntimeError: timed out"))
    /\ "poll" \in Range(call.requests)

\* the payload and threshold of the scenario: sites 1 (p 0.05, beta 2,
\* alpha 1) and 2 (p 0.2, beta 1, alpha 3), threshold 0.1
FelExample ==
    [fel_results |->
        [has_MLE |-> TRUE,
         MLE |-> <<[site |-> "1",
                    data |-> [is_dict |-> TRUE,
                              d |-> [k \in {"p-value", "beta", "alpha"} |->
                                       IF k = "p-value" THEN 5
                                       ELSE IF k = "beta" THEN 2 ELSE 1]]],
                   [site |-> "2",
                    data |-> [is_dict |-> TRUE,
                              d |-> [k \in {"p-value", "beta", "alpha"} |->
                                       IF k = "p-value" THEN 20
                                       ELSE IF k = "beta" THEN 1 ELSE 3]]]>>],
     pvalue |-> 10]

\* C20: the FEL summary lists a site as positive iff its p-value is at most
\* the threshold and beta > alpha, as negative iff its p-value is at most the
\* threshold and beta <= alpha, never as both; the totals are the lengths of
\* the lists; the scenario gives positive <<1>>, negative <<>>, totals 1, 0
C20_FelSummaryPartition ==
    (call.tool = "fel_summary" /\ call.pc = "returned")
    => LET r == call.summary[1]
           mle == call.input.fel_results.MLE
           t == call.input.pvalue
       IN  /\ \A i \in DOMAIN mle :
                LET site == int(mle[i].site)
                    d == mle[i].data.d
                IN  {"p-value", "beta", "alpha"} \subseteq DOMAIN d
                    => /\ site \in Range(r.positive_selection_sites)
                          <=> (d["p-value"] <= t /\ d["beta"] > d["alpha"])
                       /\ site \in Range(r.negative_selection_sites)
                          <=> (d["p-value"] <= t /\ d["beta"] <= d["alpha"])
           /\ Range(r.positive_selection_sites)
                 \cap Range(r.negative_selection_sites) = {}
           /\ r.total_positive_sites = Len(r.positive_selection_sites)
           /\ r.total_negative_sites = Len(r.negative_selection_sites)
           /\ call.input = FelExample
              => r = [positive_selection_sites |-> <<1>>,
                      negative_selection_sites |-> <<>>,
                      total_positive_sites |-> 1,
                      total_negative_sites |-> 0]

C20_Witness ==
    /\ call.tool = "fel_summary"
    /\ call.pc = "returned"
    /\ call.input = FelExample
    /\ call.summary[1].positive_selection_sites = <<1>>

C30_SyncCompletedSucceeds ==
    [][SyncPoll("completed")
         => /\ call'.response[1].status = "success"
            /\ call'.response[1].results # None
            /\ call'.response[1].output_file # None]_vars

\* C22: check_datamonkey_job_status sends one status request and never waits:
\* for a job reported queued or running it returns the status and the job id
\* only and asks for no results, for one reported error it adds the error
\* message and asks for no results, and results are asked for and returned
\* only for a job reported completed
C22_StatusCheckNeverWaits ==
    call.tool = "check_datamonkey_job_status"
    => LET r == call.response[1]
           rep == call.input.reported
       IN  /\ Cardinality({i \in DOMAIN call.requests : call.requests[i] = "status"}) <= 1
           /\ rep \in {"queued", "running"}
              => /\ call.requests = <<"health", "status">>
                 /\ r = [status |-> rep, job_id |-> Some(call.input.job_id),
                         error |-> None, results |-> None, output_file |-> None]
           /\ rep = "error"
              => /\ r.status = "error"
                 /\ r.error = Some("error_message")
                 /\ "results" \notin Range(call.requests)
           /\ "results" \in Range(call.requests) => rep = "completed"
           /\ r.results # None => rep = "completed"

C22_Witness ==
    /\ call.tool = "check_datamonkey_job_status"
    /\ call.input.reported = "running"
    /\ call.response[1].status = "running"
    /\ call.requests = <<"health", "status">>

\* C25: fetch_datamonkey_job_results asks for the results and writes the
\* save_to file only for a job reported completed: for any other reported
\* status it returns status 'error' saying the job is not completed, asks for
\* no results and writes no file; the file is written only after the results
\* request succeeded
C25_FetchOnlyWhenCompleted ==
    call.tool = "fetch_datamonkey_job_results"
    => LET r == call.response[1]
           rep == call.input.reported
           n == Len(call.requests)
       IN  /\ (rep \in RemoteStatuses /\ rep # "completed")
              => /\ r.status = "error"
                 /\ r.error = Some("not completed")
                 /\ "results" \notin Range(call.requests)
                 /\ "write" \notin Range(call.requests)
                 /\ r.output_file = None
           /\ "results" \in Range(call.requests) => rep = "completed"
           /\ "write" \in Range(call.requests)
              => /\ rep = "completed"
                 /\ call.input.results = "results"
                 /\ call.requests[n] = "write"
                 /\ call.requests[n - 1] = "results"
                 /\ r.status = "success"

C25_Witness ==
    /\ call.tool = "fetch_datamonkey_job_results"
    /\ call.input.reported = "running"
    /\ call.input.save_to # None
    /\ call.response[1].status = "error"
    /\ call.requests = <<"health", "status">>

\* the number of requests of one kind a call sent
Count(requests, kind) ==
    Cardinality({i \in DOMAIN requests : requests[i] = kind})

\* C23: in every start tool a failed upload ends the call: after a first
\* upload that returned an error the tool returns that error and sends neither
\* the second upload nor the start request, and after a second upload that
\* returned an error it sends no start request
C23_FailedUploadEndsCall ==
    (call.tool \in StartTools /\ call.input.health = "ok")
    => LET up == call.input.uploads
           r == call.response[1]
       IN  /\ up[1] = "error"
              => /\ r.status = "error"
                 /\ r.error = Some(call.input.upload_errors[1])
                 /\ Count(call.requests, "health") = 2
                 /\ Count(call.requests, "upload") <= 1
                 /\ "start" \notin Range(call.requests)
           /\ (Len(up) = 2 /\ up[2] = "error")
              => /\ r.status = "error"
                 /\ r.error = Some(call.input.upload_errors[2])
                 /\ "start" \notin Range(call.requests)

C23_Witness ==
    /\ call.tool = "start_absrel_job"
    /\ call.input.health = "ok"
    /\ call.input.uploads = <<"error", "unused">>
    /\ call.input.upload_errors[1] = "HTTPError"
    /\ call.requests = <<"health", "health", "upload">>
    /\ call.response[1].error = Some("HTTPError")

\* an argument of the last start call lies outside its documented range
OutOfRange ==
    LET a == call.input.args
    IN  \/ /\ call.tool = "start_fubar_job"
           /\ \/ a.grid_points \notin 5..50
              \/ a.concentration_parameter \notin 1..1000
        \/ /\ call.tool = "start_multihit_job"
           /\ a.rate_classes \notin 1..10
        \/ /\ call.tool = "start_slac_job"
           /\ \/ a.samples < 1
              \/ a.pvalue \notin 0..100
        \/ /\ call.tool = "start_slatkin_job"
           /\ \/ a.groups \notin 2..100
              \/ a.replicates \notin 1..1000000
              \/ a.weight \notin 0..100
              \/ \E i \in DOMAIN a.compartment_definitions :
                    ~({"description", "regexp"} \subseteq a.compartment_definitions[i])

\* C24: start_fubar_job, start_multihit_job, start_slac_job and
\* start_slatkin_job called with an out-of-range argument return status
\* 'error' and send no upload and no start request
C24_OutOfRangeRejected ==
    (/\ call.tool \in {"start_fubar_job", "start_multihit_job",
                       "start_slac_job", "start_slatkin_job"}
     /\ OutOfRange)
    => /\ call.response[1].status = "error"
       /\ "upload" \notin Range(call.requests)
       /\ "start" \notin Range(call.requests)
       /\ call.requests = <<"health">>

C24_Witness ==
    /\ call.tool = "start_slatkin_job"
    /\ call.input.health = "ok"
    /\ call.input.args.compartment_definitions = <<{"description", "regexp"}, {"regexp"}>>
    /\ call.response[1].status = "error"
    /\ call.response[1].error
         = Some("Each compartment definition must have 'description' and 'regexp' fields")
    /\ call.requests = <<"health">>

\* the steps of run_fel and run_meme that meet a failing health check
RunToolUnreachable ==
    \E a \in AlignmentFiles, t \in TreeFiles, p \in PValues :
        run_fel(a, t, p, "unreachable") \/ run_meme(a, t, p, "unreachable")

\* C26: when the health check fails at submission time the call creates
\* nothing (registry, temp_dir and threads unchanged), and run_fel and run_meme
\* return status 'error', not 'accepted'
C26_FailedHealthCreatesNothing ==
    [][RunToolUnreachable
         => /\ UNCHANGED <<jobs, temp_dir, issued, accepted, threads, w_pc>>
            /\ reply'[1].status = "raised"
            /\ call'.response[1].status = "error"]_vars

C26_Witness ==
    /\ call.tool = "run_meme"
    /\ call.input.health = "unreachable"
    /\ call.response[1].status = "error"
    /\ call.response[1].error = Some("ConnectionError")
    /\ jobs = <<>>
    /\ temp_dir = None
    /\ \A j \in JobIds : threads[j] = 0

\* C27: run_fel and run_meme return status 'accepted' or status 'error',
\* never 'success': the summary branch is never taken
C27_RunToolsNeverSucceed ==
    call.tool \in {"run_fel", "run_meme"}
    => /\ call.response[1].status \in {"accepted", "error"}
       /\ call.response[1].results = None

C27_Witness ==
    /\ call.tool = "run_fel"
    /\ call.input.health = "ok"
    /\ call.response[1].status = "accepted"
    /\ call.response[1].job_id # None

\* C28: once temp_dir is non-null it is never replaced, also when submissions
\* run concurrently, and the output files of all records lie in one directory
C28_TempDirCreatedOnce ==
    [][/\ temp_dir # None => temp_dir' = temp_dir
       /\ \A j, k \in DOMAIN jobs' :
             (jobs'[j].output_file # None /\ jobs'[k].output_file # None)
             => jobs'[j].output_file[1][1] = jobs'[k].output_file[1][1]]_vars

\* C21: within one tool call or one job no failed request is issued again:
\* after a health check, an upload of a file or a start request has failed,
\* the same request does not follow
C21_NoFailedRequestRepeated ==
    (call.tool = "requests" /\ call.pc = "returned")
    => \A i, k \in DOMAIN call.trace :
          (i < k /\ ~call.trace[i].ok)
          => \/ call.trace[k].req # call.trace[i].req
             \/ call.trace[k].file # call.trace[i].file

============================================================================
